---- MODULE Spec2Model ----
(***************************************************************************)
(* Model of the invitation-claim signer of the Aevium partner API examples *)
(* (generateInvitationClaim, generateSubscribeLink and the script entry    *)
(* point of the subscribe-link example).                                   *)
(*                                                                         *)
(* A JavaScript string is a sequence of one-character strings, so that     *)
(* concatenation, slicing, sorting and parsing are computed character by   *)
(* character.  A point in time is a number of milliseconds counted from    *)
(* 2025-01-01T00:00:00.000Z; the calendar is modelled for January 2025.    *)
(***************************************************************************)
EXTENDS Integers, Sequences, FiniteSets, TLC

VARIABLES
    now,      \* the process clock: what `new Date()` reads, in ms
    tz,       \* the local timezone of the process, minutes east of UTC
    call,     \* the arguments of the last call of an exported function
    result,   \* what that call returned or threw
    stderr,   \* what the script entry point wrote with console.error
    stdout    \* what the script entry point wrote with console.log

vars == <<now, tz, call, result, stderr, stdout>>

----------------------------------------------------------------------------
(* Bounds of the model *)

\* the largest number of extra invitation fields of a call
MaxFields == 2

----------------------------------------------------------------------------
(* Strings *)

\* A Date is its time value: <<t>> for the instant t, in milliseconds, and the
\* empty tuple for an Invalid Date, whose time value is NaN
NaN == <<>>

TimeValue(t) == <<t>>

Digits == <<"0", "1", "2", "3", "4", "5", "6", "7", "8", "9">>

IsDigit(c) == \E i \in 1..10 : Digits[i] = c

DigitValue(c) == (CHOOSE i \in 1..10 : Digits[i] = c) - 1

\* the UTF-16 code unit of the characters that occur in field keys
CodeUnit(c) ==
    CASE c = "&" -> 38
      [] c = "=" -> 61
      [] c = "_" -> 95
      [] c = "a" -> 97
      [] c = "b" -> 98
      [] c = "c" -> 99
      [] c = "d" -> 100
      [] c = "e" -> 101
      [] c = "l" -> 108
      [] c = "o" -> 111
      [] c = "s" -> 115
      [] c = "t" -> 116
      [] IsDigit(c) -> 48 + DigitValue(c)

RECURSIVE Flat(_)
\* a character sequence as one atom
Flat(s) ==
    IF s = <<>> THEN ""
    ELSE IF Len(s) = 1 THEN s[1]
    ELSE Flat(SubSeq(s, 1, Len(s) \div 2))
             \o Flat(SubSeq(s, (Len(s) \div 2) + 1, Len(s)))

RECURSIVE Concat(_)
\* the concatenation of a sequence of strings
Concat(ss) == IF ss = <<>> THEN <<>> ELSE Head(ss) \o Concat(Tail(ss))

RECURSIVE Join(_, _)
\* Array.prototype.join
Join(parts, sep) ==
    IF parts = <<>> THEN <<>>
    ELSE IF Len(parts) = 1 THEN parts[1]
    ELSE parts[1] \o sep \o Join(Tail(parts), sep)

\* String.prototype.slice(from, to) with 0 <= from <= to
Slice(s, from, to) ==
    SubSeq(s, from + 1, IF to < Len(s) THEN to ELSE Len(s))

StartsWith(s, p) == Len(p) <= Len(s) /\ SubSeq(s, 1, Len(p)) = p

\* the positions at which p occurs in s
Occurrences(s, p) ==
    {i \in 1..(Len(s) - Len(p) + 1) :
        s[i] = p[1] /\ SubSeq(s, i, i + Len(p) - 1) = p}

Contains(s, p) == Occurrences(s, p) # {}

Range(s) == {s[i] : i \in 1..Len(s)}

----------------------------------------------------------------------------
(* The JavaScript built-ins the program calls *)

\* the default comparison of Array.prototype.sort: x sorts before y when x is
\* smaller in UTF-16 code unit order (a proper prefix sorts first)
RECURSIVE StrLess(_, _)
StrLess(x, y) ==
    IF x = <<>> THEN y # <<>>
    ELSE IF y = <<>> THEN FALSE
    ELSE IF Head(x) = Head(y) THEN StrLess(Tail(x), Tail(y))
    ELSE CodeUnit(Head(x)) < CodeUnit(Head(y))

RECURSIVE InsertSorted(_, _)
InsertSorted(sorted, x) ==
    IF sorted = <<>> THEN <<x>>
    ELSE IF StrLess(x, Head(sorted)) THEN <<x>> \o sorted
    ELSE <<Head(sorted)>> \o InsertSorted(Tail(sorted), x)

RECURSIVE ArraySort(_)
\* Array.prototype.sort() without a comparator, on an array of strings
ArraySort(a) ==
    IF a = <<>> THEN <<>>
    ELSE InsertSorted(ArraySort(SubSeq(a, 1, Len(a) - 1)), a[Len(a)])

\* a canonical array index: "0", or digits without a leading zero
IsArrayIndex(k) ==
    /\ k # <<>>
    /\ \A i \in 1..Len(k) : IsDigit(k[i])
    /\ (Len(k) = 1 \/ k[1] # "0")

RECURSIVE ToNumber(_)
ToNumber(k) ==
    IF k = <<>> THEN 0
    ELSE 10 * ToNumber(SubSeq(k, 1, Len(k) - 1)) + DigitValue(k[Len(k)])

RECURSIVE AscendingIndexKeys(_)
AscendingIndexKeys(ks) ==
    IF ks = {} THEN <<>>
    ELSE LET m == CHOOSE k \in ks : \A o \in ks : ToNumber(k) <= ToNumber(o)
         IN <<m>> \o AscendingIndexKeys(ks \ {m})

\* An object with string keys is the sequence of its <<key, value>> entries
\* in insertion order.  Object.keys lists the array-index keys first, in
\* ascending numeric order, then the other keys in insertion order.
ObjectKeys(obj) ==
    LET keys == [i \in 1..Len(obj) |-> obj[i][1]]
        IsIndexKey(k) == IsArrayIndex(k)
        IsNameKey(k) == ~IsArrayIndex(k)
    IN AscendingIndexKeys({k \in Range(keys) : IsIndexKey(k)})
           \o SelectSeq(keys, IsNameKey)

\* obj[key], for a key of obj
Get(obj, key) == obj[CHOOSE i \in 1..Len(obj) : obj[i][1] = key][2]

Pad2(n) == <<Digits[(n \div 10) + 1], Digits[(n % 10) + 1]>>

Pad3(n) == <<Digits[(n \div 100) + 1]>> \o Pad2(n % 100)

\* the part of the ISO format that stands for the modelled year and month
YearMonth == <<"2", "0", "2", "5", "-", "0", "1", "-">>

\* Date.prototype.toISOString of a valid date in January 2025:
\* YYYY-MM-DDTHH:mm:ss.sssZ, in UTC whatever the local timezone
toISOString(t) ==
    LET secs == t \div 1000
    IN YearMonth \o Pad2((secs \div 86400) + 1) \o <<"T">>
           \o Pad2((secs % 86400) \div 3600) \o <<":">>
           \o Pad2((secs % 3600) \div 60) \o <<":">>
           \o Pad2(secs % 60) \o <<".">> \o Pad3(t % 1000) \o <<"Z">>

\* new Date(s).getTime() for a string s: a date-time without a UTC offset
\* (YYYY-MM-DDTHH:mm:ss) is read as LOCAL time, so the instant it names is
\* the wall clock reading minus the zone's offset; any other text is an
\* Invalid Date, whose time value is NaN.
DateParse(s, zone) ==
    LET two(i) == 10 * DigitValue(s[i]) + DigitValue(s[i + 1])
    IN IF /\ Len(s) = 19
          /\ SubSeq(s, 1, 8) = YearMonth
          /\ s[11] = "T" /\ s[14] = ":" /\ s[17] = ":"
          /\ \A i \in {9, 10, 12, 13, 15, 16, 18, 19} : IsDigit(s[i])
          /\ two(9) \in 1..31 /\ two(12) \in 0..23
          /\ two(15) \in 0..59 /\ two(18) \in 0..59
       THEN TimeValue(((two(9) - 1) * 86400 + two(12) * 3600 + two(15) * 60
                          + two(18) - zone * 60) * 1000)
       ELSE NaN

\* the relational a < b of two time values: false when either is NaN
NumLess(a, b) == a # NaN /\ b # NaN /\ a[1] < b[1]

\* createHmac("sha256", key).update(msg).digest("hex"): the digest is one
\* atom that names its key and its message, so that two digests are equal
\* exactly when both key and message are
HmacSha256Hex(key, msg) ==
    <<"hmac-sha256{" \o Flat(key) \o "}{" \o Flat(msg) \o "}">>

\* some of the values randomBytes(n).toString("hex") can take: 2n hex digits
RandomBytesHex(n) ==
    { [i \in 1..(2 * n) |-> "0"],
      [i \in 1..(2 * n) |-> IF i % 2 = 1 THEN "d" ELSE "e"] }

Return(v) == [kind |-> "return", value |-> v, error |-> ""]

Throw(e) == [kind |-> "throw", value |-> <<>>, error |-> e]

----------------------------------------------------------------------------
(* The program *)

CLAIM_DURATION_SECONDS == 60 * 15

\* the expiry check: new Date(dateExpiresString) < new Date()
ExpirationInPast(dateExpiresString, clock, zone) ==
    NumLess(DateParse(dateExpiresString, zone), TimeValue(clock))

\* a bug: the keys are not sorted
sortedFields_unsorted(invitationFields) == ObjectKeys(invitationFields)

sortedFields(invitationFields) == ArraySort(ObjectKeys(invitationFields))

partnerParam(partner) == <<"p", "a", "r", "t", "n", "e", "r", "=">> \o partner

learnerKeyParam(learnerKey) ==
    <<"l", "e", "a", "r", "n", "e", "r", "_", "k", "e", "y", "=">> \o learnerKey

saltParam(salt) == <<"s", "a", "l", "t", "=">> \o salt

dateExpiresParam(dateExpiresString) ==
    <<"d", "a", "t", "e", "_", "e", "x", "p", "i", "r", "e", "s", "=">>
        \o dateExpiresString

\* sortedFields.map((key) => `field_${key}=${invitationFields[key]}`)
fieldParams(invitationFields) ==
    LET keys == sortedFields(invitationFields)
    IN [i \in 1..Len(keys) |->
           <<"f", "i", "e", "l", "d", "_">> \o keys[i] \o <<"=">>
               \o Get(invitationFields, keys[i])]

\* a bug: salt emitted before partner
claim_saltFirst(partner, invitationFields, learnerKey, salt, dateExpiresString) ==
    Join(<<saltParam(salt), partnerParam(partner),
           learnerKeyParam(learnerKey), dateExpiresParam(dateExpiresString)>>
             \o fieldParams(invitationFields), <<"&">>)

\* a bug: salt left out of the signed text
claim_noSalt(partner, invitationFields, learnerKey, salt, dateExpiresString) ==
    Join(<<partnerParam(partner), learnerKeyParam(learnerKey),
           dateExpiresParam(dateExpiresString)>>
             \o fieldParams(invitationFields), <<"&">>)

claim(partner, invitationFields, learnerKey, salt, dateExpiresString) ==
    Join(<<partnerParam(partner), learnerKeyParam(learnerKey),
           saltParam(salt), dateExpiresParam(dateExpiresString)>>
             \o fieldParams(invitationFields), <<"&">>)

\* a bug: key and message of the HMAC exchanged
signature_keyAsMessage(invitationSecret, message) ==
    HmacSha256Hex(message, invitationSecret)

signature(invitationSecret, message) == HmacSha256Hex(invitationSecret, message)

SignatureParam == <<"&", "s", "i", "g", "n", "a", "t", "u", "r", "e", "=">>

generateInvitationClaim(partner, invitationFields, invitationSecret, learnerKey, salt, dateExpiresString, clock, zone) ==
    IF ExpirationInPast(dateExpiresString, clock, zone)
    THEN Throw("Error: Expiration date must be in the future")
    ELSE LET c == claim(partner, invitationFields, learnerKey, salt,
                        dateExpiresString)
         IN Return(c \o SignatureParam \o signature(invitationSecret, c))

LinkPath ==
    <<"/", "i", "n", "v", "i", "t", "a", "t", "i", "o", "n", "-",
      "c", "l", "a", "i", "m", "/", "?">>

\* a bug: the slice keeps the milliseconds
dateExpiresText_withMillis(dateExpires) ==
    Slice(toISOString(dateExpires[1]), 0, 23)

\* the text handed to generateInvitationClaim for a valid dateExpires
dateExpiresText(dateExpires) == Slice(toISOString(dateExpires[1]), 0, 19)

generateSubscribeLink(aeviumBaseUrl, partner, invitationFields, invitationSecret, learnerKey, salt, dateExpires, clock, zone) ==
    IF dateExpires = NaN
    THEN Throw("RangeError: Invalid time value")
    ELSE LET c == generateInvitationClaim(partner, invitationFields,
                      invitationSecret, learnerKey, salt,
                      dateExpiresText(dateExpires), clock, zone)
         IN IF c.kind = "throw" THEN c
            ELSE Return(aeviumBaseUrl \o LinkPath \o c.value)

\* the default of the parameter dateExpires
defaultDateExpires(clock) == TimeValue(clock + CLAIM_DURATION_SECONDS * 1000)

\* the default of the parameter salt
defaultSalts == RandomBytesHex(8)

----------------------------------------------------------------------------
(* The inputs the model draws from *)

\* <<partner, learnerKey>>: both given, or one of them empty
Identities ==
    { <<<<"a", "c">>, <<"l", "k">>>>,
      <<<<>>, <<"l", "k">>>>,
      <<<<"a", "c">>, <<>>>> }

\* the second salt carries an '&' and the name of the signature parameter
Salts == {<<"d", "e">>, <<"0", "&", "s", "i", "g", "n", "a", "t", "u", "r", "e", "=", "1">>}

Secrets == {<<>>, <<"k", "1">>}

BaseUrls == {<<"h">>, <<"h", "/">>}

\* two array-index keys whose numeric and textual orders differ, and two
\* other keys, one a prefix of the other and a name the token format reserves
FieldKeys == {<<"1", "0">>, <<"2">>, <<"s">>, <<"s", "a", "l", "t">>}

\* the values of an object's keys: the same plain value under every key, or
\* under each key a value of its own that holds an '='
Valuations ==
    {[k \in FieldKeys |-> <<"v">>], [k \in FieldKeys |-> <<"x", "=">> \o k]}

RECURSIVE KeyOrders(_)
\* the ways to insert n keys, no key twice
KeyOrders(n) ==
    IF n = 0 THEN {<<>>}
    ELSE UNION {{Append(ks, k) : k \in FieldKeys \ Range(ks)} :
                   ks \in KeyOrders(n - 1)}

\* the objects with n entries, in every insertion order
ObjectsOfSize(n) ==
    {[i \in 1..n |-> <<ks[i], val[ks[i]]>>] :
        ks \in KeyOrders(n), val \in Valuations}

FieldObjects == UNION {ObjectsOfSize(n) : n \in 0..MaxFields}

\* generateSubscribeLink hands invitationFields on untouched: the calls of it
\* draw from the objects of at most one entry
LinkFieldObjects == ObjectsOfSize(0) \cup ObjectsOfSize(1)

\* 01:00:00 of the first day, and a text that is no date
DateStrings == {<<"2", "0", "2", "5", "-", "0", "1", "-", "0", "1", "T", "0", "1", ":", "0", "0", ":", "0", "0">>,
                <<"n", "e", "v", "e", "r">>}

\* Date arguments: an Invalid Date, 00:15:00.000 and 01:00:00.999
DateArguments == {NaN, TimeValue(900000), TimeValue(3600999)}

\* clock readings: 00:00:00.000, 00:00:00.500 and 01:00:00.000
ClockReadings == {0, 500, 3600000}

\* minutes east of UTC
Zones == {-60, 0, 60}

----------------------------------------------------------------------------
(* The script entry point *)

DefaultPartner ==
    <<"e", "x", "a", "m", "p", "l", "e", "-", "p", "a", "r", "t", "n", "e", "r">>

\* { code: "ABC123" }
DefaultFields == << <<<<"c", "o", "d", "e">>, <<"A", "B", "C", "1", "2", "3">>>> >>

DefaultSecret == <<"s", "e", "c", "r", "e", "t">>

RECURSIVE InspectEntries(_, _)
InspectEntries(obj, keys) ==
    IF keys = <<>> THEN <<>>
    ELSE (IF IsArrayIndex(Head(keys))
          THEN <<" ", "'">> \o Head(keys) \o <<"'">>
          ELSE <<" ">> \o Head(keys))
         \o <<":", " ", "'">> \o Get(obj, Head(keys)) \o <<"'">>
         \o (IF Len(keys) > 1 THEN <<",">> ELSE <<" ">>)
         \o InspectEntries(obj, Tail(keys))

\* how console.error renders an object of strings: { key: 'value', ... }
InspectObject(obj) ==
    IF obj = <<>> THEN <<"{", "}">>
    ELSE <<"{">> \o InspectEntries(obj, ObjectKeys(obj)) \o <<"}">>

\* the line console.error writes before the link is built
ParametersLine(aeviumBaseUrl, partner, invitationFields, invitationSecret, learnerKey) ==
    <<"G", "e", "n", "e", "r", "a", "t", "i", "n", "g", " ", "s", "u", "b", "s", "c", "r", "i", "b", "e", " ", "l", "i", "n", "k", " ", "w", "i", "t", "h", " ", "t", "h", "e", " ", "f", "o", "l", "l", "o", "w", "i", "n", "g", " ", "p", "a", "r", "a", "m", "e", "t", "e", "r", "s", ":", " ">>
    \o <<" ", "{">>
    \o <<" ", "a", "e", "v", "i", "u", "m", "B", "a", "s", "e", "U", "r", "l", ":", " ", "'">> \o aeviumBaseUrl \o <<"'", ",">>
    \o <<" ", "p", "a", "r", "t", "n", "e", "r", ":", " ", "'">> \o partner \o <<"'", ",">>
    \o <<" ", "i", "n", "v", "i", "t", "a", "t", "i", "o", "n", "F", "i", "e", "l", "d", "s", ":", " ">> \o InspectObject(invitationFields) \o <<",">>
    \o <<" ", "i", "n", "v", "i", "t", "a", "t", "i", "o", "n", "S", "e", "c", "r", "e", "t", ":", " ", "'">> \o invitationSecret \o <<"'", ",">>
    \o <<" ", "l", "e", "a", "r", "n", "e", "r", "K", "e", "y", ":", " ", "'">> \o learnerKey \o <<"'", " ", "}">>

\* what the runtime writes when the script dies of an uncaught exception
UncaughtLine == <<"E", "r", "r", "o", "r", ":", " ", "E", "x", "p", "i", "r", "a", "t", "i", "o", "n", " ", "d", "a", "t", "e", " ", "m", "u", "s", "t", " ", "b", "e", " ", "i", "n", " ", "t", "h", "e", " ", "f", "u", "t", "u", "r", "e">>

----------------------------------------------------------------------------
(* The state machine.  The exported functions keep no state between calls, *)
(* so a behaviour follows one process up to the return of its first call:   *)
(* call records the arguments and the clock reading of that call, result    *)
(* what it returned or threw.  A call is synchronous and taken to read the  *)
(* same clock value wherever it reads the clock.                            *)

NoCall ==
    [fn |-> "none", aeviumBaseUrl |-> <<>>, partner |-> <<>>,
     invitationFields |-> <<>>, invitationSecret |-> <<>>,
     learnerKey |-> <<>>, salt |-> <<>>, dateExpires |-> NaN,
     dateExpiresString |-> <<>>, defaults |-> FALSE, clock |-> 0]

Init ==
    /\ now = 0
    /\ tz \in Zones
    /\ call = NoCall
    /\ result = [kind |-> "none", value |-> <<>>, error |-> ""]
    /\ stderr = <<>>
    /\ stdout = <<>>

\* time passes before the call
Tick ==
    /\ call = NoCall
    /\ \E t \in ClockReadings : t > now /\ now' = t
    /\ UNCHANGED <<tz, call, result, stderr, stdout>>

\* a caller that imported the module calls generateInvitationClaim
CallGenerateInvitationClaim ==
    /\ call = NoCall
    /\ \E identity \in Identities, invitationFields \in FieldObjects,
          invitationSecret \in Secrets, salt \in Salts,
          dateExpiresString \in DateStrings :
          LET partner == identity[1]
              learnerKey == identity[2]
          IN
          /\ call' = [fn |-> "generateInvitationClaim",
                      aeviumBaseUrl |-> <<>>, partner |-> partner,
                      invitationFields |-> invitationFields,
                      invitationSecret |-> invitationSecret,
                      learnerKey |-> learnerKey, salt |-> salt,
                      dateExpires |-> NaN,
                      dateExpiresString |-> dateExpiresString,
                      defaults |-> FALSE, clock |-> now]
          /\ result' = generateInvitationClaim(partner, invitationFields,
                           invitationSecret, learnerKey, salt,
                           dateExpiresString, now, tz)
    /\ UNCHANGED <<now, tz, stderr, stdout>>

LinkCall(aeviumBaseUrl, partner, invitationFields, invitationSecret, learnerKey, salt, dateExpires, defaults) ==
    [fn |-> "generateSubscribeLink", aeviumBaseUrl |-> aeviumBaseUrl,
     partner |-> partner, invitationFields |-> invitationFields,
     invitationSecret |-> invitationSecret, learnerKey |-> learnerKey,
     salt |-> salt, dateExpires |-> dateExpires,
     dateExpiresString |->
         IF dateExpires = NaN THEN <<>> ELSE dateExpiresText(dateExpires),
     defaults |-> defaults, clock |-> now]

\* a caller calls generateSubscribeLink with every argument given
CallGenerateSubscribeLink ==
    /\ call = NoCall
    /\ \E aeviumBaseUrl \in BaseUrls, invitationFields \in LinkFieldObjects,
          invitationSecret \in Secrets, salt \in Salts,
          dateExpires \in DateArguments :
          LET partner == <<"a", "c">>
              learnerKey == <<"l", "k">>
          IN /\ call' = LinkCall(aeviumBaseUrl, partner, invitationFields,
                            invitationSecret, learnerKey, salt, dateExpires,
                            FALSE)
             /\ result' = generateSubscribeLink(aeviumBaseUrl, partner,
                              invitationFields, invitationSecret, learnerKey,
                              salt, dateExpires, now, tz)
    /\ UNCHANGED <<now, tz, stderr, stdout>>

\* a caller calls generateSubscribeLink without salt and dateExpires
CallGenerateSubscribeLinkDefaults ==
    /\ call = NoCall
    /\ \E aeviumBaseUrl \in BaseUrls, invitationFields \in LinkFieldObjects,
          invitationSecret \in Secrets, salt \in defaultSalts :
          LET partner == <<"a", "c">>
              learnerKey == <<"l", "k">>
              dateExpires == defaultDateExpires(now)
          IN /\ call' = LinkCall(aeviumBaseUrl, partner, invitationFields,
                            invitationSecret, learnerKey, salt, dateExpires,
                            TRUE)
             /\ result' = generateSubscribeLink(aeviumBaseUrl, partner,
                              invitationFields, invitationSecret, learnerKey,
                              salt, dateExpires, now, tz)
    /\ UNCHANGED <<now, tz, stderr, stdout>>

\* the module runs as a script: it reads its parameters from the environment,
\* writes them with console.error, builds the link with the default salt and
\* expiry and writes it with console.log; an exception ends the process
Main ==
    /\ call = NoCall
    /\ \E aeviumBaseUrl \in {<<>>, <<"h">>},
          partner \in {DefaultPartner, <<"a", "c">>},
          invitationFields \in {DefaultFields} \cup LinkFieldObjects,
          invitationSecret \in {DefaultSecret, <<"k", "1">>},
          learnerKey \in RandomBytesHex(16), salt \in defaultSalts :
          LET dateExpires == defaultDateExpires(now)
              link == generateSubscribeLink(aeviumBaseUrl, partner,
                          invitationFields, invitationSecret, learnerKey,
                          salt, dateExpires, now, tz)
              line == ParametersLine(aeviumBaseUrl, partner, invitationFields,
                          invitationSecret, learnerKey)
          IN /\ call' = LinkCall(aeviumBaseUrl, partner, invitationFields,
                            invitationSecret, learnerKey, salt, dateExpires,
                            TRUE)
             /\ result' = link
             /\ stderr' = IF link.kind = "throw" THEN <<line, UncaughtLine>>
                          ELSE <<line>>
             /\ stdout' = IF link.kind = "throw" THEN <<>> ELSE <<link.value>>
    /\ UNCHANGED <<now, tz>>

Next ==
    \/ Tick
    \/ CallGenerateInvitationClaim
    \/ CallGenerateSubscribeLink
    \/ CallGenerateSubscribeLinkDefaults
    \/ Main

Spec == Init /\ [][Next]_vars

----------------------------------------------------------------------------
(* What the claims speak of *)

Called == call.fn # "none"

Accepted == Called /\ result.kind = "return"

Rejected == Called /\ result.kind = "throw"

\* the signed claim of the call's result: what generateInvitationClaim
\* returned, which a link carries after the base URL and the path
Token ==
    IF call.fn = "generateSubscribeLink"
    THEN SubSeq(result.value, Len(call.aeviumBaseUrl) + Len(LinkPath) + 1,
                Len(result.value))
    ELSE result.value

Max(S) == CHOOSE m \in S : \A o \in S : o <= m

Min(S) == CHOOSE m \in S : \A o \in S : m <= o

\* the part of a token before its last '&signature='
CanonicalPart(t) == SubSeq(t, 1, Max(Occurrences(t, SignatureParam)) - 1)

RECURSIVE Split(_, _)
\* the pieces of s between the occurrences of the character c
Split(s, c) ==
    IF c \notin Range(s) THEN <<s>>
    ELSE LET i == Min({j \in 1..Len(s) : s[j] = c})
         IN <<SubSeq(s, 1, i - 1)>> \o Split(SubSeq(s, i + 1, Len(s)), c)

\* the parameters of a token, as a query string parser sees them
Parameters(t) == Split(t, "&")

ParameterName(p) == Split(p, "=")[1]

ParameterValue(p) == SubSeq(p, Len(ParameterName(p)) + 2, Len(p))

SignatureName == <<"s", "i", "g", "n", "a", "t", "u", "r", "e">>

\* x comes before y in lexicographic order of code units
LexicographicallyBefore(x, y) ==
    \E n \in 0..Len(x) :
        /\ n <= Len(y)
        /\ SubSeq(x, 1, n) = SubSeq(y, 1, n)
        /\ \/ n = Len(x) /\ n < Len(y)
           \/ n < Len(x) /\ n < Len(y) /\ CodeUnit(x[n + 1]) < CodeUnit(y[n + 1])

KeysOf(obj) == {obj[i][1] : i \in 1..Len(obj)}

EntriesOf(obj) == {obj[i] : i \in 1..Len(obj)}

\* the orders in which the keys of obj can be listed, each key once
Listings(obj) ==
    {ks \in [1..Len(obj) -> KeysOf(obj)] :
        \A i, j \in 1..Len(obj) : i # j => ks[i] # ks[j]}

\* the objects that hold the entries of obj, in every insertion order
Reinsertions(obj) ==
    {[i \in 1..Len(obj) |-> <<ks[i], Get(obj, ks[i])>>] : ks \in Listings(obj)}

\* the canonical string the token format prescribes for the call's arguments,
\* its fields listed in the order ks
Prescribed(ks) ==
    <<"p", "a", "r", "t", "n", "e", "r", "=">> \o call.partner
    \o <<"&", "l", "e", "a", "r", "n", "e", "r", "_", "k", "e", "y", "=">>
    \o call.learnerKey
    \o <<"&", "s", "a", "l", "t", "=">> \o call.salt
    \o <<"&", "d", "a", "t", "e", "_", "e", "x", "p", "i", "r", "e", "s", "=">>
    \o call.dateExpiresString
    \o Concat([i \in 1..Len(ks) |->
                  <<"&", "f", "i", "e", "l", "d", "_">> \o ks[i] \o <<"=">>
                      \o Get(call.invitationFields, ks[i])])

\* the instant the expiry check reads from the call's date text
ExpiresAt == DateParse(call.dateExpiresString, tz)

\* none of the texts of the call holds an '&'
NoAmpersand ==
    /\ "&" \notin Range(call.partner) \cup Range(call.learnerKey)
                     \cup Range(call.salt) \cup Range(call.dateExpiresString)
    /\ \A e \in EntriesOf(call.invitationFields) :
           "&" \notin Range(e[1]) \cup Range(e[2])

----------------------------------------------------------------------------
(* C1: for every accepted claim, the token before '&signature=' is partner, *)
(* learner_key, salt, date_expires and one field_<key>=<value> per key of   *)
(* invitationFields in ascending lexicographic key order, joined by '&',    *)
(* with nothing added, omitted or reordered.                                *)
C1_CanonicalString ==
    Accepted =>
        \E ks \in Listings(call.invitationFields) :
            /\ \A i, j \in 1..Len(ks) :
                   i < j => LexicographicallyBefore(ks[i], ks[j])
            /\ CanonicalPart(Token) = Prescribed(ks)

\* an accepted call whose fields were inserted out of order, with two array
\* index keys whose numeric order is not their textual order
C1_Witness ==
    /\ Accepted
    /\ call.fn = "generateInvitationClaim"
    /\ Len(call.invitationFields) = 2
    /\ call.invitationFields[1][1] = <<"2">>
    /\ call.invitationFields[2][1] = <<"1", "0">>

(* C2: the token does not depend on the insertion order of the fields: the  *)
(* same key/value pairs inserted in any other order, with the other         *)
(* arguments and the clock reading unchanged, give the same result.         *)
C2_InsertionOrder ==
    call.fn = "generateInvitationClaim" =>
        \A other \in Reinsertions(call.invitationFields) :
            generateInvitationClaim(call.partner, other,
                call.invitationSecret, call.learnerKey, call.salt,
                call.dateExpiresString, call.clock, tz) = result

\* an accepted call whose two keys are no array indices and were inserted in
\* descending order
C2_Witness ==
    /\ Accepted
    /\ call.fn = "generateInvitationClaim"
    /\ Len(call.invitationFields) = 2
    /\ call.invitationFields[1][1] = <<"s", "a", "l", "t">>
    /\ call.invitationFields[2][1] = <<"s">>
    /\ call.invitationFields[1][2] # call.invitationFields[2][2]

(* C3, as stated: for every accepted claim the token is C, '&signature='    *)
(* and the HMAC-SHA256 of exactly C under the secret; the signature         *)
(* parameter is the last parameter of the token and appears once.           *)
C3_SignedOnce ==
    Accepted =>
        LET params == Parameters(Token)
            C == CanonicalPart(Token)
        IN /\ Token = C \o SignatureParam
                        \o HmacSha256Hex(call.invitationSecret, C)
           /\ ParameterName(params[Len(params)]) = SignatureName
           /\ Cardinality({i \in 1..Len(params) :
                  ParameterName(params[i]) = SignatureName}) = 1

(* C3, amended: for every accepted claim the token is C, '&signature=' and  *)
(* the HMAC-SHA256 of exactly C under the secret, C being the canonical     *)
(* string of the arguments; the signature parameter is the last parameter,  *)
(* and it appears once when no argument text holds an '&'.                  *)
C3_Signed ==
    Accepted =>
        LET params == Parameters(Token)
            C == CanonicalPart(Token)
        IN /\ Token = C \o SignatureParam
                        \o HmacSha256Hex(call.invitationSecret, C)
           /\ \E ks \in Listings(call.invitationFields) : C = Prescribed(ks)
           /\ ParameterName(params[Len(params)]) = SignatureName
           /\ NoAmpersand =>
                  Cardinality({i \in 1..Len(params) :
                      ParameterName(params[i]) = SignatureName}) = 1

\* an accepted call with a secret, two fields and no '&' in its texts
C3_Witness ==
    /\ Accepted
    /\ NoAmpersand
    /\ call.invitationSecret # <<>>
    /\ Len(call.invitationFields) = 2

(* C4: signing rejects every claim whose expiry is not strictly after the   *)
(* current time of the call, earlier or equal: a token is returned only     *)
(* when expiresAt > now.  Stated for the date texts that parse; expiresAt   *)
(* is the instant the code reads from the text, now the clock of the call.  *)
C4_ExpiryStrictlyAfterNow ==
    Accepted /\ ExpiresAt # NaN => NumLess(TimeValue(call.clock), ExpiresAt)

(* C5: generateSubscribeLink returns aeviumBaseUrl, as given, then          *)
(* '/invitation-claim/?', then the signed claim of its arguments with       *)
(* dateExpires written as YYYY-MM-DDTHH:MM:SS in UTC, cut to the whole      *)
(* second; when signing fails the failure is the result and no link is.     *)
C5_Link ==
    call.fn = "generateSubscribeLink" /\ call.dateExpires # NaN =>
        LET t == call.dateExpires[1]
            signed == generateInvitationClaim(call.partner,
                          call.invitationFields, call.invitationSecret,
                          call.learnerKey, call.salt, call.dateExpiresString,
                          call.clock, tz)
        IN /\ Len(call.dateExpiresString) = 19
           /\ DateParse(call.dateExpiresString, 0) = TimeValue(t - (t % 1000))
           /\ IF signed.kind = "return"
              THEN result = Return(call.aeviumBaseUrl
                                     \o <<"/", "i", "n", "v", "i", "t", "a", "t", "i", "o", "n", "-", "c", "l", "a", "i", "m", "/", "?">>
                                     \o signed.value)
              ELSE result = signed /\ result.value = <<>>

\* a link returned for a base URL that ends in a slash and an expiry with a
\* fraction of a second
C5_Witness ==
    /\ Accepted
    /\ call.fn = "generateSubscribeLink"
    /\ ~call.defaults
    /\ call.aeviumBaseUrl[Len(call.aeviumBaseUrl)] = "/"
    /\ call.dateExpires # NaN
    /\ call.dateExpires[1] % 1000 # 0
    /\ SubSeq(result.value, 1, 3) = <<"h", "/", "/">>

\* the parameter names of the token format
ReservedNames ==
    {<<"p", "a", "r", "t", "n", "e", "r">>,
     <<"l", "e", "a", "r", "n", "e", "r", "_", "k", "e", "y">>,
     <<"s", "a", "l", "t">>,
     <<"d", "a", "t", "e", "_", "e", "x", "p", "i", "r", "e", "s">>,
     <<"s", "i", "g", "n", "a", "t", "u", "r", "e">>}

(* C6: encoding validates its input: a claim whose partner is empty, whose *)
(* learnerKey is empty, or whose fields use one of the reserved names       *)
(* partner, learner_key, salt, date_expires or signature as a key, fails    *)
(* and gets no token.                                                       *)
C6_InputValidated ==
    LET invalid == \/ call.partner = <<>>
                   \/ call.learnerKey = <<>>
                   \/ KeysOf(call.invitationFields) \cap ReservedNames # {}
    IN Called /\ invalid => Rejected

(* C7: signing with an empty secret fails: no call of                       *)
(* generateInvitationClaim or generateSubscribeLink with the empty string   *)
(* as invitationSecret returns a token.                                     *)
C7_EmptySecretRejected ==
    Called /\ call.invitationSecret = <<>> => Rejected

(* C8: the signing secret is never disclosed: no line written to stderr or  *)
(* stdout holds it, the canonical string and the returned link do not hold  *)
(* it as text, and another secret changes nothing but the signature value.  *)
C8_SecretNotDisclosed ==
    Called /\ call.invitationSecret # <<>> =>
        /\ \A i \in 1..Len(stderr) :
               ~Contains(stderr[i], call.invitationSecret)
        /\ \A i \in 1..Len(stdout) :
               ~Contains(stdout[i], call.invitationSecret)
        /\ ~Contains(result.value, call.invitationSecret)
        /\ Accepted =>
               \A other \in Secrets :
                   CanonicalPart(generateInvitationClaim(call.partner,
                       call.invitationFields, other, call.learnerKey,
                       call.salt, call.dateExpiresString, call.clock,
                       tz).value) = CanonicalPart(Token)

(* C9: a link built with the default expiry always succeeds: whatever the   *)
(* current time and the local timezone, generateSubscribeLink called        *)
(* without dateExpires returns a link and never throws.                     *)
C9_DefaultExpiryAccepted ==
    call.fn = "generateSubscribeLink" /\ call.defaults => Accepted

\* no text of the call holds an '&' and no field key an '='
WellFormed ==
    /\ NoAmpersand
    /\ \A k \in KeysOf(call.invitationFields) : "=" \notin Range(k)

FieldPrefix == <<"f", "i", "e", "l", "d", "_">>

\* the claim a parser reads from a canonical string of four parameters or more
Decoded(c) ==
    LET ps == Parameters(c)
    IN [names |-> [i \in 1..4 |-> ParameterName(ps[i])],
        partner |-> ParameterValue(ps[1]),
        learnerKey |-> ParameterValue(ps[2]),
        salt |-> ParameterValue(ps[3]),
        dateExpires |-> ParameterValue(ps[4]),
        prefixed |-> \A i \in 5..Len(ps) : StartsWith(ps[i], FieldPrefix),
        fields |-> {<<SubSeq(ParameterName(ps[i]), Len(FieldPrefix) + 1,
                             Len(ParameterName(ps[i]))),
                      ParameterValue(ps[i])>> : i \in 5..Len(ps)}]

(* C10: the canonical encoding is injective on well-formed claims: when no  *)
(* text of an accepted claim holds an '&' and no field key holds an '=',    *)
(* the canonical string determines the claim.  The claim is read back from  *)
(* its canonical string alone: the pieces between the '&' are, in order,    *)
(* partner, learner_key, salt, date_expires with the call's values and one  *)
(* field_<key>=<value> per field, so that two such claims with equal        *)
(* canonical strings are equal field by field.                              *)
C10_Injective ==
    Accepted /\ WellFormed =>
        /\ Len(Parameters(CanonicalPart(Token)))
               = 4 + Len(call.invitationFields)
        /\ Decoded(CanonicalPart(Token))
            = [names |->
                   << <<"p", "a", "r", "t", "n", "e", "r">>,
                      <<"l", "e", "a", "r", "n", "e", "r", "_", "k", "e", "y">>,
                      <<"s", "a", "l", "t">>,
                      <<"d", "a", "t", "e", "_", "e", "x", "p", "i", "r", "e", "s">> >>,
               partner |-> call.partner,
               learnerKey |-> call.learnerKey,
               salt |-> call.salt,
               dateExpires |-> call.dateExpiresString,
               prefixed |-> TRUE,
               fields |-> EntriesOf(call.invitationFields)]

\* an accepted well-formed claim with two fields, one value holding an '='
C10_Witness ==
    /\ Accepted
    /\ WellFormed
    /\ Len(call.invitationFields) = 2
    /\ \E e \in EntriesOf(call.invitationFields) : "=" \in Range(e[2])

====
